---------------------------- MODULE Spec2Model ----------------------------
(***************************************************************************)
(* A model of video-note (src/main.go): the text chunker                   *)
(* splitTextIntoChunks, the fan-out/fan-in summarizer summarizeText, and   *)
(* the generate and summarize commands that drive it.                      *)
(*                                                                         *)
(* A text is a sequence of one-character strings.  A ratio is a float64    *)
(* flag value, written in percent: [nan |-> FALSE, v |-> 20] is 0.2, and   *)
(* [nan |-> TRUE, v |-> 0] is the NaN that flag.Float64Var accepts.        *)
(***************************************************************************)
EXTENDS Integers, Sequences, FiniteSets, TLC

(***************************************************************************)
(* Bounds of the model.                                                    *)
(***************************************************************************)
\* longest enumerated input text of the chunker
MaxTextLen == 5
\* largest chunk size the chunker is tried with
MaxChunkSize == 4
\* longest transcript the summarizer reads
MaxTranscriptLen == 5
\* the chunk size summarizeText passes (3000 at main.go:193), scaled to the
\* transcripts of the model
ChunkBudget == 2

VARIABLES
    text,        \* splitTextIntoChunks: parameter text
    chunkSize,   \* splitTextIntoChunks: parameter chunkSize
    result,      \* splitTextIntoChunks: the returned []string
    cpc,         \* position of the chunker call: "idle" | "call" | "done"
    \* ---- the command (generateCommand / summarizeCommand Exec) ----
    cmd,         \* the subcommand run: "generate" | "summarize"
    inputGiven,  \* whether -i was given (videoPath / inputPath # "")
    flagRatio,   \* summaryRatio, the value of -ratio
    pc,          \* position in Exec
    tmpDir,      \* generate's temporary directory: "none" | "exists" | "removed"
    stage,       \* outcome of each stage of generate
    cmdErr,      \* what Exec returns
    \* ---- summarizeText ----
    spc,         \* position of the caller in summarizeText
    ratio,       \* parameter ratio
    chunks,      \* chunks
    spawned,     \* loop index of the spawning loop (tasks started so far)
    wg,          \* the WaitGroup's counter
    tpc,         \* position of each per-chunk goroutine
    resp,        \* each goroutine's request outcome: "none" | "ok" | "err"
    tlocal,      \* the slice value each goroutine's append has read
    summaries,   \* the shared slice summaries
    errChan,     \* buffer of errChan
    chanCap,     \* capacity of errChan
    chanClosed,  \* whether errChan is closed
    closerPc,    \* position of the closing goroutine
    requests,    \* chat-completion requests issued, per chunk
    output,      \* content handed to os.WriteFile(outputPath, ...)
    ret,         \* what summarizeText returns
    \* ---- history ----
    sent,        \* every value sent on errChan, in order
    closeCount,  \* number of close(errChan) executed
    appendOrder, \* goroutines in the order they finished their append
    overlapped   \* whether an append began while another was under way

chunkVars == <<text, chunkSize, result, cpc>>
cmdVars == <<cmd, inputGiven, flagRatio, pc, tmpDir, stage, cmdErr>>
callerVars == <<spc, ratio, chunks, spawned, output, ret>>
taskVars == <<tpc, resp, tlocal, summaries, requests>>
syncVars == <<wg, errChan, chanCap, chanClosed, closerPc>>
histVars == <<sent, closeCount, appendOrder, overlapped>>
sumVars == <<callerVars, taskVars, syncVars, histVars>>
vars == <<chunkVars, cmdVars, sumVars>>

(***************************************************************************)
(* strings.Fields and strings.Join, as the standard library defines them.  *)
(***************************************************************************)
Letters == {"a", "b"}
Spaces == {" ", "\n"}
Alphabet == Letters \cup Spaces

IsSpace(c) == c \in Spaces

RECURSIVE FieldsFrom(_, _, _, _)
FieldsFrom(s, i, word, acc) ==
    IF i > Len(s)
      THEN IF word = <<>> THEN acc ELSE Append(acc, word)
      ELSE IF IsSpace(s[i])
             THEN FieldsFrom(s, i + 1, <<>>,
                             IF word = <<>> THEN acc ELSE Append(acc, word))
             ELSE FieldsFrom(s, i + 1, Append(word, s[i]), acc)

Fields(s) == FieldsFrom(s, 1, <<>>, <<>>)

RECURSIVE JoinFrom(_, _, _)
JoinFrom(elems, sep, i) ==
    IF i > Len(elems) THEN <<>>
    ELSE IF i = Len(elems) THEN elems[i]
    ELSE elems[i] \o sep \o JoinFrom(elems, sep, i + 1)

Join(elems, sep) == JoinFrom(elems, sep, 1)

(***************************************************************************)
(* splitTextIntoChunks (main.go:256-279).                                  *)
(***************************************************************************)
\* a plausible slip: the comparison at the budget itself
ExceedsAtBudget(currentChunk, word, size) ==
    Len(currentChunk) + Len(word) + 1 >= size

\* a plausible slip: the separating space is not counted
ExceedsNoSeparator(currentChunk, word, size) ==
    Len(currentChunk) + Len(word) > size

\* the test of line 262
Exceeds(currentChunk, word, size) ==
    Len(currentChunk) + Len(word) + 1 > size

\* the loop of lines 261-272, from word i on
RECURSIVE ChunkLoop(_, _, _, _, _)
ChunkLoop(words, i, currentChunk, out, size) ==
    IF i > Len(words)
      THEN [currentChunk |-> currentChunk, chunks |-> out]
      ELSE IF Exceeds(currentChunk, words[i], size)
             THEN ChunkLoop(words, i + 1, words[i],
                            Append(out, currentChunk), size)
             ELSE IF currentChunk = <<>>
                    THEN ChunkLoop(words, i + 1, words[i], out, size)
                    ELSE ChunkLoop(words, i + 1,
                                   currentChunk \o <<" ">> \o words[i],
                                   out, size)

splitTextIntoChunks(t, size) ==
    LET words == Fields(t)
        end == ChunkLoop(words, 1, <<>>, <<>>, size)
    IN  IF end.currentChunk # <<>>
          THEN Append(end.chunks, end.currentChunk)
          ELSE end.chunks

(***************************************************************************)
(* Ratios.  The flag package parses -ratio with strconv.ParseFloat, which  *)
(* accepts "NaN"; every comparison with NaN is false.                      *)
(***************************************************************************)
\* 0.1 and 0.5, in percent
RatioMin == 10
RatioMax == 50
\* the default of -ratio, 0.2, in percent
RatioDefault == 20

Num(v) == [nan |-> FALSE, v |-> v]
NaN == [nan |-> TRUE, v |-> 0]
Less(r, bound) == ~r.nan /\ r.v < bound
Greater(r, bound) == ~r.nan /\ r.v > bound
FlagRatios == {Num(5), Num(RatioMin), Num(RatioDefault), Num(RatioMax), Num(60), NaN}

\* lines 178-182 of summarizeText
Clamp(r) ==
    IF Less(r, RatioMin) THEN Num(RatioMin)
    ELSE IF Greater(r, RatioMax) THEN Num(RatioMax)
    ELSE r

\* the test of line 340 of summarizeCommand
Rejected(r) == Less(r, RatioMin) \/ Greater(r, RatioMax)

(***************************************************************************)
(* Values of the pipeline.                                                 *)
(***************************************************************************)
Nil == [kind |-> "nil", part |-> 0]
Pending == [kind |-> "pending", part |-> 0]
ErrRead == [kind |-> "read", part |-> 0]
ErrWrite == [kind |-> "write", part |-> 0]
\* fmt.Errorf("生成第%d部分摘要失败: %w", idx+1, err), line 226
ErrPart(i) == [kind |-> "part", part |-> i]

\* output before os.WriteFile is called
NoOutput == <<[frag |-> -1]>>
\* resp.Choices[0].Message.Content of the response to chunk i
Fragment(i) == <<[frag |-> i]>>
\* the separator of line 246
Separator == <<[frag |-> 0]>>

TranscriptAlphabet == {"a", " "}
Transcripts == UNION {[1..n -> TranscriptAlphabet] : n \in 0..MaxTranscriptLen}

Tasks == DOMAIN tpc
AllTasksDone == \A i \in Tasks : tpc[i] = "done"
InAppend(i) == tpc[i] = "append_write"

StageInit == [extract |-> "notrun", transcribe |-> "notrun", summarize |-> "notrun"]

SumIdle ==
    /\ spc = "idle"
    /\ ratio = Num(0)
    /\ chunks = <<>>
    /\ spawned = 0
    /\ wg = 0
    /\ tpc = <<>>
    /\ resp = <<>>
    /\ tlocal = <<>>
    /\ summaries = <<>>
    /\ errChan = <<>>
    /\ chanCap = 0
    /\ chanClosed = FALSE
    /\ closerPc = "none"
    /\ requests = <<>>
    /\ output = NoOutput
    /\ ret = Pending
    /\ sent = <<>>
    /\ closeCount = 0
    /\ appendOrder = <<>>
    /\ overlapped = FALSE

ChunkIdle ==
    /\ text = <<>>
    /\ chunkSize = 0
    /\ result = <<>>
    /\ cpc = "idle"

Init ==
    /\ cmd \in {"generate", "summarize"}
    /\ inputGiven \in BOOLEAN
    /\ flagRatio \in FlagRatios
    /\ pc = "args"
    /\ tmpDir = "none"
    /\ stage = StageInit
    /\ cmdErr = "pending"
    /\ SumIdle
    /\ ChunkIdle

(***************************************************************************)
(* generateCommand's Exec (main.go:85-125).                                *)
(***************************************************************************)
\* lines 86-93: the -i check and the default of -o
GenArgs ==
    /\ cmd = "generate" /\ pc = "args"
    /\ IF inputGiven
         THEN pc' = "mkdir" /\ UNCHANGED cmdErr
         ELSE pc' = "returned" /\ cmdErr' = "no input"
    /\ UNCHANGED <<cmd, inputGiven, flagRatio, tmpDir, stage, sumVars, chunkVars>>

\* lines 96-100: os.MkdirTemp and the deferred os.RemoveAll
GenMkdirTemp ==
    /\ cmd = "generate" /\ pc = "mkdir"
    /\ \E ok \in BOOLEAN :
         IF ok
           THEN tmpDir' = "exists" /\ pc' = "extract" /\ UNCHANGED cmdErr
           ELSE pc' = "returned" /\ cmdErr' = "mkdir failed" /\ UNCHANGED tmpDir
    /\ UNCHANGED <<cmd, inputGiven, flagRatio, stage, sumVars, chunkVars>>

\* a plausible slip: cleanup written on the success path only
GenExtractNoCleanup ==
    /\ cmd = "generate" /\ pc = "extract"
    /\ \E ok \in BOOLEAN :
         IF ok
           THEN /\ stage' = [stage EXCEPT !.extract = "ok"]
                /\ pc' = "transcribe" /\ UNCHANGED cmdErr
           ELSE /\ stage' = [stage EXCEPT !.extract = "failed"]
                /\ pc' = "returned" /\ cmdErr' = "extract failed"
    /\ UNCHANGED <<cmd, inputGiven, flagRatio, tmpDir, sumVars, chunkVars>>

\* lines 106-109: extractAudio
GenExtract ==
    /\ cmd = "generate" /\ pc = "extract"
    /\ \E ok \in BOOLEAN :
         IF ok
           THEN /\ stage' = [stage EXCEPT !.extract = "ok"]
                /\ pc' = "transcribe" /\ UNCHANGED cmdErr
           ELSE /\ stage' = [stage EXCEPT !.extract = "failed"]
                /\ pc' = "deferred" /\ cmdErr' = "extract failed"
    /\ UNCHANGED <<cmd, inputGiven, flagRatio, tmpDir, sumVars, chunkVars>>

\* lines 112-115: transcribeAudio
GenTranscribe ==
    /\ cmd = "generate" /\ pc = "transcribe"
    /\ \E ok \in BOOLEAN :
         IF ok
           THEN /\ stage' = [stage EXCEPT !.transcribe = "ok"]
                /\ pc' = "summarize" /\ UNCHANGED cmdErr
           ELSE /\ stage' = [stage EXCEPT !.transcribe = "failed"]
                /\ pc' = "deferred" /\ cmdErr' = "transcribe failed"
    /\ UNCHANGED <<cmd, inputGiven, flagRatio, tmpDir, sumVars, chunkVars>>

\* line 119: the call of summarizeText with summaryRatio
GenSummarizeCall ==
    /\ cmd = "generate" /\ pc = "summarize"
    /\ spc = "idle"
    /\ stage' = [stage EXCEPT !.summarize = "running"]
    /\ ratio' = flagRatio
    /\ spc' = "clamp"
    /\ pc' = "wait"
    /\ UNCHANGED <<cmd, inputGiven, flagRatio, tmpDir, cmdErr, chunks, spawned,
                   output, ret, taskVars, syncVars, histVars, chunkVars>>

\* lines 119-124: summarizeText has returned
GenSummarizeReturn ==
    /\ cmd = "generate" /\ pc = "wait"
    /\ spc = "returned"
    /\ IF ret = Nil
         THEN stage' = [stage EXCEPT !.summarize = "ok"] /\ cmdErr' = "nil"
         ELSE stage' = [stage EXCEPT !.summarize = "failed"]
              /\ cmdErr' = "summarize failed"
    /\ pc' = "deferred"
    /\ UNCHANGED <<cmd, inputGiven, flagRatio, tmpDir, sumVars, chunkVars>>

\* line 100: the deferred os.RemoveAll(tmpDir), run as Exec returns
GenDeferredRemoveAll ==
    /\ cmd = "generate" /\ pc = "deferred"
    /\ tmpDir' = "removed"
    /\ pc' = "returned"
    /\ UNCHANGED <<cmd, inputGiven, flagRatio, stage, cmdErr, sumVars, chunkVars>>

(***************************************************************************)
(* summarizeCommand's Exec (main.go:330-351).                              *)
(***************************************************************************)
\* lines 331-338: the -i check and the default of -o
SumArgs ==
    /\ cmd = "summarize" /\ pc = "args"
    /\ IF inputGiven
         THEN pc' = "ratio" /\ UNCHANGED cmdErr
         ELSE pc' = "returned" /\ cmdErr' = "no input"
    /\ UNCHANGED <<cmd, inputGiven, flagRatio, tmpDir, stage, sumVars, chunkVars>>

\* lines 340-342: the range check of -ratio
SumRatioCheck ==
    /\ cmd = "summarize" /\ pc = "ratio"
    /\ IF Rejected(flagRatio)
         THEN pc' = "returned" /\ cmdErr' = "ratio out of range"
         ELSE pc' = "summarize" /\ UNCHANGED cmdErr
    /\ UNCHANGED <<cmd, inputGiven, flagRatio, tmpDir, stage, sumVars, chunkVars>>

\* line 345: the call of summarizeText with summaryRatio
SumSummarizeCall ==
    /\ cmd = "summarize" /\ pc = "summarize"
    /\ spc = "idle"
    /\ ratio' = flagRatio
    /\ spc' = "clamp"
    /\ pc' = "wait"
    /\ UNCHANGED <<cmd, inputGiven, flagRatio, tmpDir, stage, cmdErr, chunks,
                   spawned, output, ret, taskVars, syncVars, histVars, chunkVars>>

\* lines 345-350: summarizeText has returned
SumSummarizeReturn ==
    /\ cmd = "summarize" /\ pc = "wait"
    /\ spc = "returned"
    /\ cmdErr' = IF ret = Nil THEN "nil" ELSE "summarize failed"
    /\ pc' = "returned"
    /\ UNCHANGED <<cmd, inputGiven, flagRatio, tmpDir, stage, sumVars, chunkVars>>

(***************************************************************************)
(* summarizeText (main.go:176-254): the caller.                            *)
(***************************************************************************)
\* lines 178-182: the ratio is clamped
SumClamp ==
    /\ spc = "clamp"
    /\ ratio' = Clamp(ratio)
    /\ spc' = "read"
    /\ UNCHANGED <<chunks, spawned, output, ret, taskVars, syncVars, histVars,
                   cmdVars, chunkVars>>

\* a plausible slip: errChan made without a buffer
SumReadAndSplitUnbuffered ==
    /\ spc = "read"
    /\ \/ /\ ret' = ErrRead
          /\ spc' = "returned"
          /\ UNCHANGED <<chunks, tpc, resp, tlocal, requests, chanCap>>
       \/ \E transcript \in Transcripts :
            LET cs == splitTextIntoChunks(transcript, ChunkBudget) IN
            /\ chunks' = cs
            /\ tpc' = [i \in 1..Len(cs) |-> "unspawned"]
            /\ resp' = [i \in 1..Len(cs) |-> "none"]
            /\ tlocal' = [i \in 1..Len(cs) |-> <<>>]
            /\ requests' = [i \in 1..Len(cs) |-> <<>>]
            /\ chanCap' = 0
            /\ spc' = "spawn"
            /\ UNCHANGED ret
    /\ UNCHANGED <<ratio, spawned, output, summaries, wg, errChan, chanClosed,
                   closerPc, histVars, cmdVars, chunkVars>>

\* lines 187-196: os.ReadFile, splitTextIntoChunks, make(chan error, len(chunks))
SumReadAndSplit ==
    /\ spc = "read"
    /\ \/ /\ ret' = ErrRead
          /\ spc' = "returned"
          /\ UNCHANGED <<chunks, tpc, resp, tlocal, requests, chanCap>>
       \/ \E transcript \in Transcripts :
            LET cs == splitTextIntoChunks(transcript, ChunkBudget) IN
            /\ chunks' = cs
            /\ tpc' = [i \in 1..Len(cs) |-> "unspawned"]
            /\ resp' = [i \in 1..Len(cs) |-> "none"]
            /\ tlocal' = [i \in 1..Len(cs) |-> <<>>]
            /\ requests' = [i \in 1..Len(cs) |-> <<>>]
            /\ chanCap' = Len(cs)
            /\ spc' = "spawn"
            /\ UNCHANGED ret
    /\ UNCHANGED <<ratio, spawned, output, summaries, wg, errChan, chanClosed,
                   closerPc, histVars, cmdVars, chunkVars>>

\* lines 198-200: one iteration of the loop: wg.Add(1) and go func(i, chunk)
SumSpawn ==
    /\ spc = "spawn"
    /\ spawned < Len(chunks)
    /\ wg' = wg + 1
    /\ tpc' = [tpc EXCEPT ![spawned + 1] = "sleep"]
    /\ spawned' = spawned + 1
    /\ UNCHANGED <<spc, ratio, chunks, output, ret, resp, tlocal, summaries,
                   requests, errChan, chanCap, chanClosed, closerPc, histVars,
                   cmdVars, chunkVars>>

\* lines 234-237: the loop is over; the closing goroutine is started
SumStartCloser ==
    /\ spc = "spawn"
    /\ spawned = Len(chunks)
    /\ closerPc' = "wait"
    /\ spc' = "range"
    /\ UNCHANGED <<ratio, chunks, spawned, output, ret, taskVars, wg, errChan,
                   chanCap, chanClosed, histVars, cmdVars, chunkVars>>

\* a plausible slip: the received error is dropped and the loop goes on
SumReceiveIgnoringError ==
    /\ spc = "range"
    /\ errChan # <<>>
    /\ errChan' = Tail(errChan)
    /\ UNCHANGED <<spc, ratio, chunks, spawned, output, ret, taskVars, wg, chanCap,
                   chanClosed, closerPc, histVars, cmdVars, chunkVars>>

\* lines 239-242: a value is received from errChan and returned
SumReceive ==
    /\ spc = "range"
    /\ errChan # <<>>
    /\ errChan' = Tail(errChan)
    /\ IF Head(errChan) # Nil
         THEN ret' = Head(errChan) /\ spc' = "returned"
         ELSE UNCHANGED <<ret, spc>>
    /\ UNCHANGED <<ratio, chunks, spawned, output, taskVars, wg, chanCap,
                   chanClosed, closerPc, histVars, cmdVars, chunkVars>>

\* line 243: errChan is closed and empty, the range loop ends
SumRangeEnd ==
    /\ spc = "range"
    /\ errChan = <<>>
    /\ chanClosed
    /\ spc' = "join"
    /\ UNCHANGED <<ratio, chunks, spawned, output, ret, taskVars, syncVars,
                   histVars, cmdVars, chunkVars>>

\* lines 246-253: strings.Join and os.WriteFile
SumJoinAndWrite ==
    /\ spc = "join"
    /\ output' = Join(summaries, Separator)
    /\ \E ok \in BOOLEAN : ret' = IF ok THEN Nil ELSE ErrWrite
    /\ spc' = "returned"
    /\ UNCHANGED <<ratio, chunks, spawned, taskVars, syncVars, histVars, cmdVars,
                   chunkVars>>

(***************************************************************************)
(* summarizeText: the goroutine of chunk i (lines 200-231), idx = i - 1.   *)
(***************************************************************************)
\* line 204: time.Sleep(idx*2 s) is over
TaskSleep(i) ==
    /\ tpc[i] = "sleep"
    /\ tpc' = [tpc EXCEPT ![i] = "request"]
    /\ UNCHANGED <<resp, tlocal, summaries, requests, callerVars, syncVars,
                   histVars, cmdVars, chunkVars>>

\* lines 206-223: the prompt is built and the request is issued
TaskRequest(i) ==
    /\ tpc[i] = "request"
    /\ requests' = [requests EXCEPT
                      ![i] = Append(@, [text |-> chunks[i], ratio |-> ratio])]
    /\ tpc' = [tpc EXCEPT ![i] = "await"]
    /\ UNCHANGED <<resp, tlocal, summaries, callerVars, syncVars, histVars,
                   cmdVars, chunkVars>>

\* lines 213-225: CreateChatCompletion returns, with or without an error (a
\* response without an error is taken to carry a choice, as line 230 takes it)
TaskResponse(i) ==
    /\ tpc[i] = "await"
    /\ \E ok \in BOOLEAN :
         /\ resp' = [resp EXCEPT ![i] = IF ok THEN "ok" ELSE "err"]
         /\ tpc' = [tpc EXCEPT ![i] = IF ok THEN "append_read" ELSE "send"]
    /\ UNCHANGED <<tlocal, summaries, requests, callerVars, syncVars, histVars,
                   cmdVars, chunkVars>>

\* line 226: errChan <- error; the send waits while the buffer is full
TaskSend(i) ==
    /\ tpc[i] = "send"
    /\ Len(errChan) < chanCap
    /\ ~chanClosed
    /\ errChan' = Append(errChan, ErrPart(i))
    /\ sent' = Append(sent, ErrPart(i))
    /\ tpc' = [tpc EXCEPT ![i] = "exit"]
    /\ UNCHANGED <<resp, tlocal, summaries, requests, callerVars, wg, chanCap,
                   chanClosed, closerPc, closeCount, appendOrder, overlapped,
                   cmdVars, chunkVars>>

\* line 230, first half: append reads summaries.  No lock guards line 230:
\* the append of one goroutine is a read of the slice and a later write of
\* it, and other goroutines run in between.
TaskAppendRead(i) ==
    /\ tpc[i] = "append_read"
    /\ tlocal' = [tlocal EXCEPT ![i] = summaries]
    /\ overlapped' = (overlapped \/ \E j \in Tasks : j # i /\ InAppend(j))
    /\ tpc' = [tpc EXCEPT ![i] = "append_write"]
    /\ UNCHANGED <<resp, summaries, requests, callerVars, syncVars, sent,
                   closeCount, appendOrder, cmdVars, chunkVars>>

\* a plausible slip: the fragment replaces the list instead of growing it
TaskAppendOverwrite(i) ==
    /\ tpc[i] = "append_write"
    /\ summaries' = <<Fragment(i)>>
    /\ appendOrder' = Append(appendOrder, i)
    /\ tpc' = [tpc EXCEPT ![i] = "exit"]
    /\ UNCHANGED <<resp, tlocal, requests, callerVars, syncVars, sent, closeCount,
                   overlapped, cmdVars, chunkVars>>

\* a plausible slip: the fragment is stored at the place of its chunk index
TaskAppendByIndex(i) ==
    /\ tpc[i] = "append_write"
    /\ summaries' = SelectSeq(tlocal[i], LAMBDA f : f[1].frag < i)
                      \o <<Fragment(i)>>
                      \o SelectSeq(tlocal[i], LAMBDA f : f[1].frag > i)
    /\ appendOrder' = Append(appendOrder, i)
    /\ tpc' = [tpc EXCEPT ![i] = "exit"]
    /\ UNCHANGED <<resp, tlocal, requests, callerVars, syncVars, sent, closeCount,
                   overlapped, cmdVars, chunkVars>>

\* line 230, second half: the grown slice is stored in summaries
TaskAppendWrite(i) ==
    /\ tpc[i] = "append_write"
    /\ summaries' = Append(tlocal[i], Fragment(i))
    /\ appendOrder' = Append(appendOrder, i)
    /\ tpc' = [tpc EXCEPT ![i] = "exit"]
    /\ UNCHANGED <<resp, tlocal, requests, callerVars, syncVars, sent, closeCount,
                   overlapped, cmdVars, chunkVars>>

\* line 201: the deferred wg.Done(), run as the goroutine returns
TaskExit(i) ==
    /\ tpc[i] = "exit"
    /\ wg' = wg - 1
    /\ tpc' = [tpc EXCEPT ![i] = "done"]
    /\ UNCHANGED <<resp, tlocal, summaries, requests, callerVars, errChan,
                   chanCap, chanClosed, closerPc, histVars, cmdVars, chunkVars>>

(***************************************************************************)
(* summarizeText: the closing goroutine (lines 234-237).                   *)
(***************************************************************************)
\* a plausible slip: the channel is closed without waiting for the tasks
CloserNoWait ==
    /\ closerPc = "wait"
    /\ closerPc' = "close"
    /\ UNCHANGED <<wg, errChan, chanCap, chanClosed, callerVars, taskVars,
                   histVars, cmdVars, chunkVars>>

\* line 235: wg.Wait() returns once the counter is zero
CloserWait ==
    /\ closerPc = "wait"
    /\ wg = 0
    /\ closerPc' = "close"
    /\ UNCHANGED <<wg, errChan, chanCap, chanClosed, callerVars, taskVars,
                   histVars, cmdVars, chunkVars>>

\* line 236: close(errChan)
CloserClose ==
    /\ closerPc = "close"
    /\ chanClosed' = TRUE
    /\ closeCount' = closeCount + 1
    /\ closerPc' = "done"
    /\ UNCHANGED <<wg, errChan, chanCap, callerVars, taskVars, sent, appendOrder,
                   overlapped, cmdVars, chunkVars>>

(***************************************************************************)
(* The program: one run of generate or summarize.  The goroutines of       *)
(* summarizeText keep running after it has returned on an error, as they   *)
(* do until main ends the process.                                         *)
(***************************************************************************)
CommandNext ==
    \/ GenArgs \/ GenMkdirTemp \/ GenExtract \/ GenTranscribe
    \/ GenSummarizeCall \/ GenSummarizeReturn \/ GenDeferredRemoveAll
    \/ SumArgs \/ SumRatioCheck \/ SumSummarizeCall \/ SumSummarizeReturn

CallerNext ==
    \/ SumClamp \/ SumReadAndSplit \/ SumSpawn \/ SumStartCloser
    \/ SumReceive \/ SumRangeEnd \/ SumJoinAndWrite

TaskNext(i) ==
    \/ TaskSleep(i) \/ TaskRequest(i) \/ TaskResponse(i) \/ TaskSend(i)
    \/ TaskAppendRead(i) \/ TaskAppendWrite(i) \/ TaskExit(i)

CloserNext == CloserWait \/ CloserClose

Next ==
    \/ CommandNext
    \/ CallerNext
    \/ \E i \in Tasks : TaskNext(i)
    \/ CloserNext

Spec == Init /\ [][Next]_vars

(***************************************************************************)
(* The chunker on its own: every text up to MaxTextLen over Alphabet, the  *)
(* example of the specification, and every chunk size 0..MaxChunkSize.     *)
(***************************************************************************)
TextsOfLen(n) == [1..n -> Alphabet]
BoundedTexts == UNION {TextsOfLen(n) : n \in 0..MaxTextLen}
ExampleText == <<"a", " ", "b", " ", "c", " ", "d">>
LongWordText == <<"a", " ", "b", "\n", "a", "b", "b", "a">>
Texts == BoundedTexts \cup {ExampleText, LongWordText}
ChunkSizes == 0..MaxChunkSize

ChunkInit ==
    /\ text \in Texts
    /\ chunkSize \in ChunkSizes
    /\ result = <<>>
    /\ cpc = "call"
    /\ cmd = "none"
    /\ inputGiven = FALSE
    /\ flagRatio = Num(RatioDefault)
    /\ pc = "idle"
    /\ tmpDir = "none"
    /\ stage = StageInit
    /\ cmdErr = "pending"
    /\ SumIdle

SplitCall ==
    /\ cpc = "call"
    /\ result' = splitTextIntoChunks(text, chunkSize)
    /\ cpc' = "done"
    /\ UNCHANGED <<text, chunkSize, cmdVars, sumVars>>

ChunkNext == SplitCall

ChunkSpec == ChunkInit /\ [][ChunkNext]_vars

(***************************************************************************)
(* Fair scheduling: the Go scheduler runs every goroutine that can take a  *)
(* step, and every request is taken to return.                             *)
(***************************************************************************)
MaxTasks == MaxTranscriptLen + 1

Fairness ==
    /\ WF_vars(CommandNext)
    /\ WF_vars(CallerNext)
    /\ WF_vars(CloserNext)
    /\ \A i \in 1..MaxTasks : WF_vars(i \in Tasks /\ TaskNext(i))

\* Termination does not read the ratio: the fair runs start from the default.
FairInit == Init /\ flagRatio = Num(RatioDefault)

FairSpec == FairInit /\ [][Next]_vars /\ Fairness

(***************************************************************************)
(* Properties of the chunker (ChunkSpec).                                  *)
(***************************************************************************)
ChunkDone == cpc = "done"
Space == <<" ">>
Normalized(t) == Join(Fields(t), Space)
IsSingleWord(c) == Fields(c) = <<c>>

\* C2: every chunk returned by splitTextIntoChunks has length <= chunkSize,
\* except a chunk that is exactly one word longer than chunkSize.
C2_ChunksWithinBudget ==
    ChunkDone =>
      \A k \in 1..Len(result) :
        \/ Len(result[k]) <= chunkSize
        \/ IsSingleWord(result[k]) /\ Len(result[k]) > chunkSize

\* a result holding both an over-long single word and a chunk of several words
C2_Witness ==
    /\ ChunkDone
    /\ \E k \in 1..Len(result) : Len(result[k]) > chunkSize
    /\ \E k \in 1..Len(result) : Len(Fields(result[k])) >= 2

\* C3: joining the chunks with single spaces gives the whitespace-normalized
\* input, and an input without words gives no chunk.
C3_RoundTrip ==
    ChunkDone =>
      /\ Join(result, Space) = Normalized(text)
      /\ Fields(text) = <<>> => result = <<>>

\* C4, as stated: "a b c d" with chunk size 3 gives one word per chunk.
C4_OneWordPerChunk ==
    (ChunkDone /\ text = ExampleText /\ chunkSize = 3) =>
      result = << <<"a">>, <<"b">>, <<"c">>, <<"d">> >>

\* C4, amended: "a b c d" with chunk size 3 gives the two chunks "a b" and
\* "c d", each exactly at the budget.
C4_TwoWordsPerChunk ==
    (ChunkDone /\ text = ExampleText /\ chunkSize = 3) =>
      result = << <<"a", " ", "b">>, <<"c", " ", "d">> >>

C4_Witness ==
    /\ ChunkDone /\ text = ExampleText /\ chunkSize = 3
    /\ Len(result) = 2

(***************************************************************************)
(* Properties of the commands and of summarizeText (Spec, FairSpec).       *)
(***************************************************************************)
Returned == spc = "returned"
InRange(r) == ~r.nan /\ RatioMin <= r.v /\ r.v <= RatioMax
FragmentsOf(out) == SelectSeq(out, LAMBDA t : t.frag # 0)
Position(seq, x) == CHOOSE k \in 1..Len(seq) : seq[k] = x

\* C1: if a chunk's request returned an error, summarizeText returns an
\* error and os.WriteFile is never called; no chunk's request is issued twice.
C1_AllOrNothing ==
    /\ \A i \in Tasks : Len(requests[i]) <= 1
    /\ (\E i \in Tasks : resp[i] = "err") =>
         /\ output = NoOutput
         /\ Returned => ret # Nil

\* summarizeText has returned after one request failed and another succeeded
\* and finished its append
C1_Witness ==
    /\ Returned /\ AllTasksDone
    /\ ret.kind = "part"
    /\ \E i \in Tasks : resp[i] = "err"
    /\ \E j \in Tasks : resp[j] = "ok" /\ summaries # <<>>

\* C5: every request carries a ratio in [0.1, 0.5]; generate runs
\* summarizeText with the clamped ratio; summarize with a ratio outside
\* [0.1, 0.5] returns its error without entering summarizeText.
C5_RatioInRange ==
    /\ \A i \in Tasks : \A k \in 1..Len(requests[i]) :
         InRange(requests[i][k].ratio)
    /\ (cmd = "generate" /\ spc \notin {"idle", "clamp"}) => InRange(ratio)
    /\ (cmd = "summarize" /\ ~InRange(flagRatio)) =>
         /\ spc = "idle" /\ requests = <<>> /\ output = NoOutput
         /\ pc = "returned" => cmdErr \in {"no input", "ratio out of range"}

\* the part of C5 that holds: for every -ratio that is a number
RatioInRangeForNumbers == flagRatio.nan \/ C5_RatioInRange

\* C6: generate returns with its temporary directory removed, whatever the
\* outcome, and starts a stage only after every earlier stage succeeded.
C6_TmpDirRemoved ==
    /\ (pc = "returned" /\ tmpDir # "none") => tmpDir = "removed"
    /\ stage.extract # "notrun" => tmpDir # "none"
    /\ stage.transcribe # "notrun" => stage.extract = "ok"
    /\ stage.summarize # "notrun" =>
         stage.extract = "ok" /\ stage.transcribe = "ok"
    /\ spc # "idle" /\ cmd = "generate" => stage.summarize # "notrun"

\* generate has returned after the summarization failed
C6_Witness ==
    /\ cmd = "generate" /\ pc = "returned"
    /\ stage.summarize = "failed"
    /\ tmpDir = "removed"

\* C7: errChan is closed once, after every task has finished; the caller
\* returns the first error sent; join-and-write is reached only with the
\* channel closed and empty and every task's append finished.
C7_CloseAfterTasks ==
    /\ closeCount <= 1
    /\ chanClosed <=> closeCount = 1
    /\ chanClosed => spawned = Len(chunks) /\ AllTasksDone
    /\ ret.kind = "part" => sent # <<>> /\ ret = sent[1]
    /\ (spc = "join" \/ output # NoOutput) =>
         /\ chanClosed /\ errChan = <<>> /\ sent = <<>>
         /\ AllTasksDone
         /\ Len(appendOrder) = Len(chunks)

\* two tasks failed, the later chunk's error was sent first, and the caller
\* returned that one
C7_Witness ==
    /\ Returned /\ chanClosed
    /\ Len(sent) >= 2
    /\ sent[1].part > sent[2].part
    /\ ret = sent[1]

\* C8: a fragment is missing from a successful output only if two appends
\* overlapped (and such an output is reachable: C8_Witness).
C8_LostOnlyByOverlap ==
    (Returned /\ ret = Nil) =>
      LET frags == FragmentsOf(output) IN
      /\ Len(frags) <= Len(chunks)
      /\ \A p, q \in 1..Len(frags) : p # q => frags[p] # frags[q]
      /\ Len(frags) < Len(chunks) => overlapped

\* every request succeeded and the written output lacks a fragment
C8_Witness ==
    /\ Returned /\ ret = Nil
    /\ \A i \in Tasks : resp[i] = "ok"
    /\ Len(FragmentsOf(output)) < Len(chunks)

\* C9: the fragments of the output stand in the order in which the tasks
\* finished their appends (and an order against the chunk indices is
\* reachable: C9_Witness).
C9_OrderOfCompletion ==
    /\ \A p, q \in 1..Len(summaries) :
         p < q => Position(appendOrder, summaries[p][1].frag)
                    < Position(appendOrder, summaries[q][1].frag)
    /\ (Returned /\ ret = Nil) => output = Join(summaries, Separator)

\* a successful output with a later chunk's fragment before an earlier one's
C9_Witness ==
    /\ Returned /\ ret = Nil
    /\ \E p, q \in 1..Len(FragmentsOf(output)) :
         p < q /\ FragmentsOf(output)[p].frag > FragmentsOf(output)[q].frag

\* C10: no send on errChan ever waits, each task sends at most once, the
\* capacity is the number of chunks; under fair scheduling summarizeText
\* returns, every task terminates and the channel is closed; with zero
\* chunks no request is issued and the output is empty.
C10_NoDeadlock ==
    /\ [](\A i \in Tasks :
            /\ tpc[i] = "send" => Len(errChan) < chanCap /\ ~chanClosed
            /\ Cardinality({k \in 1..Len(sent) : sent[k].part = i}) <= 1)
    /\ [](spc \in {"spawn", "range", "join"} => chanCap = Len(chunks))
    /\ [](Returned /\ ret # ErrRead /\ chunks = <<>> =>
            requests = <<>> /\ output = <<>> /\ chanClosed)
    /\ (spc = "clamp") ~> Returned
    /\ (spc = "spawn") ~> (chanClosed /\ AllTasksDone)

\* summarizeText returned on the first error while another task had not yet
\* sent its own error
C10_Witness ==
    /\ Returned /\ ret.kind = "part"
    /\ \E i \in Tasks : tpc[i] = "send"

=============================================================================
